---- MODULE Spec2Model ----
(***************************************************************************)
(* Model of the two cogs of the bot:                                       *)
(*   cogs/track_react.py  TrackReact  (on_ready, parse_codeblocks,         *)
(*                                     add_reacts, on_thread_create,       *)
(*                                     on_message)                         *)
(*   cogs/mod_message.py  ModMessage  (mod_message)                        *)
(* Every handler is a coroutine run by one event loop: the code between    *)
(* two awaits runs without interruption, so each action below is one such  *)
(* segment.  Strings are sequences of one-character strings.               *)
(***************************************************************************)
EXTENDS Integers, Sequences, FiniteSets, TLC

\* ------------------------------------------------------------------------
\* State
\* ------------------------------------------------------------------------
VARIABLES
    aliases,          \* self.aliases (dict items in order)
    case_sensitive,   \* self.case_sensitive
    reacts,           \* self.reacts: compiled pattern -> emoji
    messages,         \* self.messages: thread id -> message
    ready,            \* the on_ready handlers
    msg,              \* the messages and their on_message handlers
    thr,              \* the on_thread_create handlers
    mod               \* the mod_message invocation

trackVars == <<aliases, case_sensitive, reacts, messages, ready, msg, thr>>

vars == <<aliases, case_sensitive, reacts, messages, ready, msg, thr, mod>>

\* ------------------------------------------------------------------------
\* Characters and the str methods the code uses
\* ------------------------------------------------------------------------
LowerChars ==
    <<"a","b","c","d","e","f","g","h","i","j","k","l","m",
      "n","o","p","q","r","s","t","u","v","w","x","y","z">>

UpperChars ==
    <<"A","B","C","D","E","F","G","H","I","J","K","L","M",
      "N","O","P","Q","R","S","T","U","V","W","X","Y","Z">>

DigitChars == {"0","1","2","3","4","5","6","7","8","9"}

WhiteChars == {" ", "\n", "\t"}

IsLower(c) == \E i \in DOMAIN LowerChars : LowerChars[i] = c

IsUpper(c) == \E i \in DOMAIN UpperChars : UpperChars[i] = c

\* str.isalpha / cased characters of the ASCII range
IsCased(c) == IsLower(c) \/ IsUpper(c)

\* str.isalnum() of one character
IsAlnum(c) == IsCased(c) \/ c \in DigitChars

\* the class \w of the re module
IsWordChar(c) == IsAlnum(c) \/ c = "_"

ToUpper(c) ==
    IF IsLower(c)
    THEN UpperChars[CHOOSE i \in DOMAIN LowerChars : LowerChars[i] = c]
    ELSE c

ToLower(c) ==
    IF IsUpper(c)
    THEN LowerChars[CHOOSE i \in DOMAIN UpperChars : UpperChars[i] = c]
    ELSE c

\* str.title(): a cased character is upper-cased when it follows an uncased
\* character (or starts the string) and lower-cased otherwise.
Title(s) ==
    [i \in 1..Len(s) |->
        IF i = 1 \/ ~IsCased(s[i-1]) THEN ToUpper(s[i]) ELSE ToLower(s[i])]

\* str.startswith(prefix)
StartsWith(s, prefix) ==
    /\ Len(s) >= Len(prefix)
    /\ SubSeq(s, 1, Len(prefix)) = prefix

\* str.removeprefix(prefix)
RemovePrefix(s, prefix) ==
    IF StartsWith(s, prefix) THEN SubSeq(s, Len(prefix) + 1, Len(s)) ELSE s

\* track.replace("_", ".?")
RECURSIVE ReplaceUnderscore(_)
ReplaceUnderscore(s) ==
    IF s = <<>> THEN <<>>
    ELSE (IF Head(s) = "_" THEN <<".", "?">> ELSE <<Head(s)>>)
         \o ReplaceUnderscore(Tail(s))

\* str.splitlines() for the line break "\n": no empty last line after a
\* trailing break, no line at all for the empty string.
RECURSIVE SplitLinesFrom(_, _)
SplitLinesFrom(s, cur) ==
    IF s = <<>> THEN (IF cur = <<>> THEN <<>> ELSE <<cur>>)
    ELSE IF Head(s) = "\n" THEN <<cur>> \o SplitLinesFrom(Tail(s), <<>>)
    ELSE SplitLinesFrom(Tail(s), Append(cur, Head(s)))

SplitLines(s) == SplitLinesFrom(s, <<>>)

\* str.split(): the maximal runs of non-whitespace characters
RECURSIVE SplitWordsFrom(_, _)
SplitWordsFrom(s, cur) ==
    IF s = <<>> THEN (IF cur = <<>> THEN <<>> ELSE <<cur>>)
    ELSE IF Head(s) \in WhiteChars
         THEN (IF cur = <<>> THEN <<>> ELSE <<cur>>)
              \o SplitWordsFrom(Tail(s), <<>>)
    ELSE SplitWordsFrom(Tail(s), Append(cur, Head(s)))

SplitWords(s) == SplitWordsFrom(s, <<>>)

\* "\n".join(lines)
RECURSIVE JoinLines(_)
JoinLines(lines) ==
    IF lines = <<>> THEN <<>>
    ELSE IF Len(lines) = 1 THEN lines[1]
    ELSE lines[1] \o <<"\n">> \o JoinLines(Tail(lines))

\* The grave accent (the character of a code fence); the module's lexer
\* has no string literal for it, so it is written as a named character.
Backtick == "BACKTICK"

Fence == <<Backtick, Backtick, Backtick>>

\* parse_codeblocks that emits the tag of a closing fence as well
RECURSIVE ParseLinesTagsEveryFence(_, _, _)
ParseLinesTagsEveryFence(todo, in_block, out) ==
    IF todo = <<>> THEN out
    ELSE
        LET line    == Head(todo)
            isFence == StartsWith(line, Fence)
            parts   == SplitWords(line)
            out1    == IF isFence /\ Len(parts) = 1
                       THEN Append(out, Title(parts[1]))
                       ELSE out
            blk     == IF isFence THEN ~in_block ELSE in_block
            out2    == IF ~blk THEN Append(out1, line) ELSE out1
        IN  ParseLinesTagsEveryFence(Tail(todo), blk, out2)

\* TrackReact.parse_codeblocks: the loop over the lines, with the list
\* `lines` (out) and the flag `in_block` carried along.
RECURSIVE ParseLines(_, _, _)
ParseLines(todo, in_block, out) ==
    IF todo = <<>> THEN out
    ELSE
        LET line    == Head(todo)
            isFence == StartsWith(line, Fence)
            parts   == SplitWords(line)
            out1    == IF isFence /\ ~in_block /\ Len(parts) = 1
                       THEN Append(out, Title(parts[1]))
                       ELSE out
            blk     == IF isFence THEN ~in_block ELSE in_block
            out2    == IF ~blk THEN Append(out1, line) ELSE out1
        IN  ParseLines(Tail(todo), blk, out2)

parse_codeblocks(message) == JoinLines(ParseLines(SplitLines(message), FALSE, <<>>))

\* ------------------------------------------------------------------------
\* Patterns: re.compile(r"\b" + track + word_boundary_end, flags) and
\* compiled.search(content)
\* ------------------------------------------------------------------------
IGNORECASE == "IGNORECASE"

NOFLAG == "0"

\* The regular expression of a track, read as the re module reads it: a
\* sequence of atoms (a character standing for itself, or "." for any
\* character but a line break), each with its quantifier: "1" (none), "?"
\* (optional), "+" (one or more) or "++" (one or more, possessive: the
\* longest run and no shorter one).  The track names of the model use no
\* other metacharacter.
RECURSIVE Tokens(_)
Tokens(src) ==
    IF src = <<>> THEN <<>>
    ELSE IF Len(src) >= 3 /\ src[2] = "+" /\ src[3] = "+"
         THEN <<[atom |-> src[1], quant |-> "++"]>>
              \o Tokens(SubSeq(src, 4, Len(src)))
    ELSE IF Len(src) >= 2 /\ src[2] \in {"?", "+"}
         THEN <<[atom |-> src[1], quant |-> src[2]]>>
              \o Tokens(SubSeq(src, 3, Len(src)))
    ELSE <<[atom |-> src[1], quant |-> "1"]>> \o Tokens(Tail(src))

AtomMatches(atom, c, flags) ==
    IF atom = "." THEN c # "\n"
    ELSE IF flags = IGNORECASE THEN ToLower(atom) = ToLower(c)
    ELSE atom = c

\* Is there a word character right before / right after offset pos
\* (0..Len(text)) of the text?
WordBefore(text, pos) == pos >= 1 /\ IsWordChar(text[pos])

WordAfter(text, pos) == pos < Len(text) /\ IsWordChar(text[pos + 1])

\* \b and \B at an offset
AtWordBoundary(text, pos) == WordBefore(text, pos) # WordAfter(text, pos)

\* The length of the run of characters from offset pos that the atom matches
RECURSIVE RunLength(_, _, _, _)
RunLength(atom, text, pos, flags) ==
    IF pos < Len(text) /\ AtomMatches(atom, text[pos + 1], flags)
    THEN 1 + RunLength(atom, text, pos + 1, flags)
    ELSE 0

\* The offsets at which a match of the tokens k.. that starts at pos can end
RECURSIVE MatchEnds(_, _, _, _, _)
MatchEnds(toks, k, text, pos, flags) ==
    IF k > Len(toks) THEN {pos}
    ELSE IF toks[k].quant = "+"
    THEN UNION {MatchEnds(toks, k + 1, text, pos + n, flags) :
                    n \in 1..RunLength(toks[k].atom, text, pos, flags)}
    ELSE IF toks[k].quant = "++"
    THEN (IF RunLength(toks[k].atom, text, pos, flags) >= 1
          THEN MatchEnds(toks, k + 1, text,
                         pos + RunLength(toks[k].atom, text, pos, flags), flags)
          ELSE {})
    ELSE
        (IF pos < Len(text) /\ AtomMatches(toks[k].atom, text[pos + 1], flags)
         THEN MatchEnds(toks, k + 1, text, pos + 1, flags) ELSE {})
        \cup
        (IF toks[k].quant = "?" THEN MatchEnds(toks, k + 1, text, pos, flags)
         ELSE {})

\* compiled.search(content) is not None.  The text and the tokens of the
\* pattern are bound once, for all the offsets tried.
Search(compiled, content) ==
    \E text \in {content}, toks \in {Tokens(compiled.track)} :
        \E start \in 0..Len(text) :
            /\ AtWordBoundary(text, start)
            /\ \E end \in MatchEnds(toks, 1, text, start, compiled.flags) :
                  IF compiled.word_boundary_end = "b"
                  THEN AtWordBoundary(text, end)
                  ELSE ~AtWordBoundary(text, end)

\* ------------------------------------------------------------------------
\* dict: `tracks` keeps its insertion order (a sequence of items with
\* distinct keys); the pattern maps are functions from compiled patterns
\* to emoji.
\* ------------------------------------------------------------------------
DictHas(d, key) == \E i \in DOMAIN d : d[i].key = key

DictGet(d, key) == d[CHOOSE i \in DOMAIN d : d[i].key = key].val

\* d[key] = val
DictSet(d, key, val) ==
    IF DictHas(d, key)
    THEN [i \in DOMAIN d |-> IF d[i].key = key THEN [key |-> key, val |-> val]
                             ELSE d[i]]
    ELSE Append(d, [key |-> key, val |-> val])

EmptyMap == [p \in {} |-> p]

MapSet(f, key, val) ==
    [p \in (DOMAIN f) \cup {key} |-> IF p = key THEN val ELSE f[p]]

TrackPrefix == <<"t","r","a","c","k","_">>

\* on_ready, lines 45-49: the dict comprehension over the fetched emoji
RECURSIVE FetchedTracks(_, _)
FetchedTracks(emojis, tracks) ==
    IF emojis = <<>> THEN tracks
    ELSE LET e == Head(emojis) IN
         FetchedTracks(Tail(emojis),
             IF StartsWith(e.name, TrackPrefix)
             THEN DictSet(tracks, RemovePrefix(e.name, TrackPrefix), e)
             ELSE tracks)

\* on_ready, lines 50-54: one pass of the alias loop
AliasStep(tracks, item) ==
    IF ~DictHas(tracks, item.src)
    THEN tracks
    ELSE DictSet(tracks, item.alias, DictGet(tracks, item.src))

RECURSIVE AddAliases(_, _)
AddAliases(tracks, items) ==
    IF items = <<>> THEN tracks
    ELSE AddAliases(AliasStep(tracks, Head(items)), Tail(items))

\* The test of line 60 without the rule for names of one character
IsCaseSensitiveListed(track, case_sens) == track \in case_sens

\* on_ready, lines 59-65: the flags and the rewritten track name
IsCaseSensitive(track, case_sens) == Len(track) = 1 \/ track \in case_sens

TrackSource(track, case_sens) ==
    ReplaceUnderscore(IF IsCaseSensitive(track, case_sens) THEN Title(track)
                      ELSE track)

\* on_ready, lines 67-78: the compiled pattern; the source is not empty
\* (the assertion of line 68 is checked by the caller).
Compile(track, case_sens) ==
    LET src == TrackSource(track, case_sens) IN
    [track |-> src,
     word_boundary_end |-> IF ~IsAlnum(src[Len(src)]) THEN "B" ELSE "b",
     flags |-> IF IsCaseSensitive(track, case_sens) THEN NOFLAG ELSE IGNORECASE]

\* on_ready, lines 56-79: the loop over tracks.items(); the result is the
\* new map, or a raise when the assertion of line 68 fails.
RECURSIVE BuildPatterns(_, _, _)
BuildPatterns(items, case_sens, re_reacts) ==
    IF items = <<>> THEN [raised |-> FALSE, map |-> re_reacts]
    ELSE LET track == Head(items).key
             emoji == Head(items).val
         IN  IF ~(Len(TrackSource(track, case_sens)) > 0)
             THEN [raised |-> TRUE, map |-> re_reacts]
             ELSE BuildPatterns(Tail(items), case_sens,
                      MapSet(re_reacts, Compile(track, case_sens), emoji))

\* The build that adds to the map in place instead of starting anew
BuildReactsMerged(emojis, alias_items, case_sens) ==
    BuildPatterns(AddAliases(FetchedTracks(emojis, <<>>), alias_items),
                  case_sens, reacts)

\* on_ready, lines 45-79, from the fetched list to the value assigned to
\* self.reacts
BuildReacts(emojis, alias_items, case_sens) ==
    BuildPatterns(AddAliases(FetchedTracks(emojis, <<>>), alias_items),
                  case_sens, EmptyMap)

\* The matching loop that stops at the first pattern that matches
MatchedFirstOnly(re_reacts, content) ==
    LET hits == {c \in DOMAIN re_reacts : Search(c, content)} IN
    IF hits = {} THEN {} ELSE {re_reacts[CHOOSE c \in hits : TRUE]}

\* add_reacts, lines 113-116: the set of matched emoji
MatchedReactions(re_reacts, content) ==
    {re_reacts[compiled] : compiled \in
        {c \in DOMAIN re_reacts : Search(c, content)}}

\* ------------------------------------------------------------------------
\* The inputs of the model
\* ------------------------------------------------------------------------
\* Emoji of the guild; an emoji object is equal to another by its id.
EmojiGo    == [id |-> "e_go", name |-> <<"t","r","a","c","k","_","g","o">>]

EmojiC     == [id |-> "e_c", name |-> <<"t","r","a","c","k","_","c">>]

EmojiOk    == [id |-> "e_ok", name |-> <<"o","k">>]

EmojiBare  == [id |-> "e_bare", name |-> <<"t","r","a","c","k","_">>]

\* What guild.fetch_emojis() can return: the full list, the list after
\* track_go was deleted, and a list with an emoji named exactly "track_".
EmojiLists ==
    { <<EmojiGo, EmojiC, EmojiOk>>,
      <<EmojiC, EmojiOk>>,
      <<EmojiGo, EmojiBare>> }

Alias(alias, src) == [alias |-> alias, src |-> src]

\* Alias tables (dict items in their order): gl -> go, g2 -> gl (an alias
\* of an alias listed earlier), c# -> c, zz -> nope (no such track).
MainAliases ==
    << Alias(<<"g","l">>, <<"g","o">>),
       Alias(<<"g","2">>, <<"g","l">>),
       Alias(<<"c","#">>, <<"c">>),
       Alias(<<"z","z">>, <<"n","o","p","e">>) >>

\* the same chain with the alias of the alias listed first
ReversedAliases ==
    << Alias(<<"g","2">>, <<"g","l">>),
       Alias(<<"g","l">>, <<"g","o">>) >>

\* an alias with an empty keyword
EmptyKeyAliases ==
    << Alias(<<>>, <<"c">>),
       Alias(<<"g","_","l">>, <<"g","o">>) >>

MainConfig == [aliases |-> MainAliases, case_sensitive |-> {<<"g","o">>}]

\* The configurations a cog is constructed with
Configs ==
    [aliases : {MainAliases, ReversedAliases, EmptyKeyAliases, <<>>},
     case_sensitive : {{}, {<<"g","o">>}, {<<"g","l">>, <<"c","#">>}}]

\* message.content of the messages that arrive
ContentPlain == <<"C","#"," ","g","l">>

ContentFenced ==
    <<Backtick,Backtick,Backtick,"g","o","\n","c","\n",Backtick,Backtick,Backtick>>

Contents == {ContentPlain, ContentFenced}

\* Channels: the public threads 1..NumThreads and one text channel.
NumThreads == 1

ThreadIds == 1..NumThreads

TextChannel == 0

ChannelIds == ThreadIds \cup {TextChannel}

\* message.channel.type == discord.ChannelType.public_thread
IsPublicThread(chan) == chan \in ThreadIds

\* message.channel.name of a thread
ThreadName(chan) == <<"c","#"," ","x">>

\* The number of concurrent on_ready handlers, of messages and of
\* thread-creation events
NumReady == 1

NumMsgs == 2

NumThreadEvents == 1

ReadyIds == 1..NumReady

MsgIds == 1..NumMsgs

ThreadEventIds == 1..NumThreadEvents

\* ------------------------------------------------------------------------
\* The handlers and their initial state
\* ------------------------------------------------------------------------
\* emojis: the list fetch_emojis returns; replaced: the map that the
\* assignment of self.reacts replaced, kept for the record.
ReadyIdle == [pc |-> "idle", emojis |-> <<>>, replaced |-> EmptyMap]

\* A message not yet created.  guild: message.guild is set; perm: the bot has
\* add_reactions in message.channel; todo/applied: the set `reactions` of
\* the add_reacts call of on_message, split in the part still to apply and
\* the reactions added so far, in their order.
MsgIdle ==
    [pc |-> "idle", guild |-> FALSE, perm |-> FALSE, chan |-> TextChannel,
     content |-> <<>>, todo |-> {}, applied |-> <<>>]

ThrIdle == [pc |-> "idle", id |-> 0, message |-> 0, todo |-> {}, applied |-> <<>>]

ModIdle == [pc |-> "idle"]

InitTrack(config) ==
    /\ aliases = config.aliases
    /\ case_sensitive = config.case_sensitive
    /\ reacts = EmptyMap
    /\ messages = EmptyMap
    /\ ready = [h \in ReadyIds |-> ReadyIdle]
    /\ msg = [m \in MsgIds |-> MsgIdle]
    /\ thr = [t \in ThreadEventIds |-> ThrIdle]

\* ------------------------------------------------------------------------
\* TrackReact.on_ready
\* ------------------------------------------------------------------------
\* on_ready that empties the map when the guild is not found
OnReadyStartClearing(h) ==
    /\ ready[h].pc \in {"idle", "failed", "done", "raised"}
    /\ \/ /\ ready' = [ready EXCEPT ![h] = [ReadyIdle EXCEPT !.pc = "failed"]]
          /\ reacts' = EmptyMap
       \/ /\ \E emojis \in EmojiLists :
                ready' = [ready EXCEPT ![h] = [ReadyIdle EXCEPT !.pc = "fetch",
                                                                !.emojis = emojis]]
          /\ UNCHANGED reacts
    /\ UNCHANGED <<aliases, case_sensitive, messages, msg, thr, mod>>

\* Lines 40-44: get_guild; without a guild the handler logs and returns,
\* with one it suspends in guild.fetch_emojis(), whose reply is the
\* guild's emoji list at the time of the request.
OnReadyStart(h) ==
    /\ ready[h].pc \in {"idle", "failed", "done", "raised"}
    /\ \/ ready' = [ready EXCEPT ![h] = [ReadyIdle EXCEPT !.pc = "failed"]]
       \/ \E emojis \in EmojiLists :
             ready' = [ready EXCEPT ![h] = [ReadyIdle EXCEPT !.pc = "fetch",
                                                             !.emojis = emojis]]
    /\ UNCHANGED <<aliases, case_sensitive, reacts, messages, msg, thr, mod>>

\* Lines 45-82: the build after fetch_emojis returned, up to the
\* assignment of self.reacts; a failed assertion ends the handler before it.
OnReadyBuild(h) ==
    /\ ready[h].pc = "fetch"
    /\ LET built == BuildReacts(ready[h].emojis, aliases, case_sensitive) IN
          IF built.raised
          THEN /\ ready' = [ready EXCEPT ![h].pc = "raised"]
               /\ UNCHANGED reacts
          ELSE /\ ready' = [ready EXCEPT ![h].pc = "done",
                                          ![h].replaced = reacts]
               /\ reacts' = built.map
    /\ UNCHANGED <<aliases, case_sensitive, messages, msg, thr, mod>>

\* ------------------------------------------------------------------------
\* TrackReact.add_reacts
\* ------------------------------------------------------------------------
\* add_reacts without the test of the add_reactions permission
ReactionsUnchecked(guild, perm, content) ==
    IF ~guild THEN {}
    ELSE MatchedReactions(reacts, parse_codeblocks(content))

\* Lines 102-116: the checks, the stripping and the matching against the
\* map read once from self.reacts; the result is the set `reactions`.
Reactions(guild, perm, content) ==
    IF ~guild THEN {}
    ELSE IF ~perm THEN {}
    ELSE MatchedReactions(reacts, parse_codeblocks(content))

\* The call as it stands at its first suspension (or at its return when
\* there is nothing to add).
StartReacts(call, guild, perm, content) ==
    LET reactions == Reactions(guild, perm, content) IN
    [call EXCEPT !.todo = reactions,
                 !.applied = <<>>,
                 !.pc = IF reactions = {} THEN "done" ELSE "react"]

\* The loop of add_reacts run over the live self.reacts instead of the set
\* computed before the first await: an emoji the map no longer holds is
\* skipped.
AddReactionLive(call, reaction) ==
    LET live == {reacts[p] : p \in DOMAIN reacts}
        rest == (call.todo \ {reaction}) \cap live
    IN  [call EXCEPT !.todo = rest,
                     !.applied = Append(call.applied, reaction),
                     !.pc = IF rest = {} THEN "done" ELSE "react"]

\* Lines 117-119: one `await message.add_reaction(reaction)` returned; the
\* loop goes on with the next element of the set or ends.
AddReaction(call, reaction) ==
    [call EXCEPT !.todo = call.todo \ {reaction},
                 !.applied = Append(call.applied, reaction),
                 !.pc = IF call.todo \ {reaction} = {} THEN "done" ELSE "react"]

\* Line 119: `await message.add_reaction(reaction)` raised (the emoji was
\* deleted, the message is gone, the request failed).  Nothing catches the
\* exception: it leaves the loop, add_reacts and the handler; the rest of
\* the set stays unapplied.
FailReaction(call) == [call EXCEPT !.pc = "raised"]

\* ------------------------------------------------------------------------
\* TrackReact.on_message
\* ------------------------------------------------------------------------
\* on_message that keeps the entry already pending for the thread
OnMessageKeepsFirst(m, contents) ==
    /\ msg[m].pc = "idle"
    /\ \A k \in MsgIds : k < m => msg[k].pc # "idle"
    /\ \E guild \in BOOLEAN, perm \in BOOLEAN, chan \in ChannelIds,
          content \in contents :
          /\ guild \/ ~perm
          /\ messages' = IF IsPublicThread(chan) /\ chan \notin DOMAIN messages
                         THEN MapSet(messages, chan, m)
                         ELSE messages
          /\ msg' = [msg EXCEPT ![m] =
                        StartReacts([MsgIdle EXCEPT !.guild = guild,
                                                    !.perm = perm,
                                                    !.chan = chan,
                                                    !.content = content],
                                    guild, perm, content)]
    /\ UNCHANGED <<aliases, case_sensitive, reacts, ready, thr, mod>>

\* on_message that records the message only once the reaction path has
\* passed its checks
OnMessageRecordsChecked(m, contents) ==
    /\ msg[m].pc = "idle"
    /\ \A k \in MsgIds : k < m => msg[k].pc # "idle"
    /\ \E guild \in BOOLEAN, perm \in BOOLEAN, chan \in ChannelIds,
          content \in contents :
          /\ guild \/ ~perm
          /\ messages' = IF IsPublicThread(chan) /\ guild /\ perm
                         THEN MapSet(messages, chan, m)
                         ELSE messages
          /\ msg' = [msg EXCEPT ![m] =
                        StartReacts([MsgIdle EXCEPT !.guild = guild,
                                                    !.perm = perm,
                                                    !.chan = chan,
                                                    !.content = content],
                                    guild, perm, content)]
    /\ UNCHANGED <<aliases, case_sensitive, reacts, ready, thr, mod>>

\* Lines 136-138 up to the first suspension of add_reacts, for a message
\* whose content is one of `contents`.  Messages are numbered in the order
\* of their events.
OnMessageWith(m, contents) ==
    /\ msg[m].pc = "idle"
    /\ \A k \in MsgIds : k < m => msg[k].pc # "idle"
    /\ \E guild \in BOOLEAN, perm \in BOOLEAN, chan \in ChannelIds,
          content \in contents :
          /\ guild \/ ~perm
          /\ messages' = IF IsPublicThread(chan) THEN MapSet(messages, chan, m)
                         ELSE messages
          /\ msg' = [msg EXCEPT ![m] =
                        StartReacts([MsgIdle EXCEPT !.guild = guild,
                                                    !.perm = perm,
                                                    !.chan = chan,
                                                    !.content = content],
                                    guild, perm, content)]
    /\ UNCHANGED <<aliases, case_sensitive, reacts, ready, thr, mod>>

OnMessage(m) == OnMessageWith(m, Contents)

\* add_reacts called by on_message resumes after an add_reaction
MsgReact(m) ==
    /\ msg[m].pc = "react"
    /\ \E reaction \in msg[m].todo :
          msg' = [msg EXCEPT ![m] = AddReaction(msg[m], reaction)]
    /\ UNCHANGED <<aliases, case_sensitive, reacts, messages, ready, thr, mod>>

\* add_reacts called by on_message: an add_reaction raises
MsgReactFails(m) ==
    /\ msg[m].pc = "react"
    /\ msg' = [msg EXCEPT ![m] = FailReaction(msg[m])]
    /\ UNCHANGED <<aliases, case_sensitive, reacts, messages, ready, thr, mod>>

\* ------------------------------------------------------------------------
\* TrackReact.on_thread_create
\* ------------------------------------------------------------------------
\* Line 124: the handler starts and suspends in asyncio.sleep(0.5)
OnThreadCreate(t) ==
    /\ thr[t].pc = "idle"
    /\ \E id \in ThreadIds :
          thr' = [thr EXCEPT ![t] = [ThrIdle EXCEPT !.pc = "sleep", !.id = id]]
    /\ UNCHANGED <<aliases, case_sensitive, reacts, messages, ready, msg, mod>>

\* del d[key] of the pop
MapRemove(f, key) == [k \in (DOMAIN f) \ {key} |-> f[k]]

\* on_thread_create that scans the content of the message, not the name
\* of the thread
ThreadWakeContent(t) ==
    /\ thr[t].pc = "sleep"
    /\ IF thr[t].id \notin DOMAIN messages
       THEN /\ thr' = [thr EXCEPT ![t].pc = "nomsg"]
            /\ UNCHANGED messages
       ELSE LET m == messages[thr[t].id] IN
            /\ messages' = MapRemove(messages, thr[t].id)
            /\ thr' = [thr EXCEPT ![t] =
                  StartReacts([thr[t] EXCEPT !.message = m],
                              msg[m].guild, msg[m].perm, msg[m].content)]
    /\ UNCHANGED <<aliases, case_sensitive, reacts, ready, msg, mod>>

\* on_thread_create that pops without the membership test: KeyError
ThreadWakeNoTest(t) ==
    /\ thr[t].pc = "sleep"
    /\ IF thr[t].id \notin DOMAIN messages
       THEN /\ thr' = [thr EXCEPT ![t].pc = "raised"]
            /\ UNCHANGED messages
       ELSE LET m == messages[thr[t].id] IN
            /\ messages' = MapRemove(messages, thr[t].id)
            /\ thr' = [thr EXCEPT ![t] =
                  StartReacts([thr[t] EXCEPT !.message = m],
                              msg[m].guild, msg[m].perm,
                              ThreadName(msg[m].chan))]
    /\ UNCHANGED <<aliases, case_sensitive, reacts, ready, msg, mod>>

\* on_thread_create with a suspension between the membership test and the
\* pop: the pop of a key that is gone raises KeyError
ThreadWakeSuspended(t) ==
    /\ \/ /\ thr[t].pc = "sleep"
          /\ thr' = [thr EXCEPT ![t].pc =
                        IF thr[t].id \notin DOMAIN messages THEN "nomsg"
                        ELSE "tested"]
          /\ UNCHANGED messages
       \/ /\ thr[t].pc = "tested"
          /\ IF thr[t].id \notin DOMAIN messages
             THEN /\ thr' = [thr EXCEPT ![t].pc = "raised"]
                  /\ UNCHANGED messages
             ELSE LET m == messages[thr[t].id] IN
                  /\ messages' = MapRemove(messages, thr[t].id)
                  /\ thr' = [thr EXCEPT ![t] =
                        StartReacts([thr[t] EXCEPT !.message = m],
                                    msg[m].guild, msg[m].perm,
                                    ThreadName(msg[m].chan))]
    /\ UNCHANGED <<aliases, case_sensitive, reacts, ready, msg, mod>>

\* Lines 126-131 up to the first suspension of add_reacts: the lookup, the
\* pop and the call with the name of the thread.
ThreadWake(t) ==
    /\ thr[t].pc = "sleep"
    /\ IF thr[t].id \notin DOMAIN messages
       THEN /\ thr' = [thr EXCEPT ![t].pc = "nomsg"]
            /\ UNCHANGED messages
       ELSE LET m == messages[thr[t].id] IN
            /\ messages' = MapRemove(messages, thr[t].id)
            /\ thr' = [thr EXCEPT ![t] =
                  IF IsPublicThread(msg[m].chan)
                  THEN StartReacts([thr[t] EXCEPT !.message = m],
                                   msg[m].guild, msg[m].perm,
                                   ThreadName(msg[m].chan))
                  ELSE [thr[t] EXCEPT !.message = m, !.pc = "done"]]
    /\ UNCHANGED <<aliases, case_sensitive, reacts, ready, msg, mod>>

\* add_reacts called by on_thread_create resumes after an add_reaction
ThreadReact(t) ==
    /\ thr[t].pc = "react"
    /\ \E reaction \in thr[t].todo :
          thr' = [thr EXCEPT ![t] = AddReaction(thr[t], reaction)]
    /\ UNCHANGED <<aliases, case_sensitive, reacts, messages, ready, msg, mod>>

\* add_reacts called by on_thread_create: an add_reaction raises
ThreadReactFails(t) ==
    /\ thr[t].pc = "react"
    /\ thr' = [thr EXCEPT ![t] = FailReaction(thr[t])]
    /\ UNCHANGED <<aliases, case_sensitive, reacts, messages, ready, msg, mod>>

\* ------------------------------------------------------------------------
\* ModMessage.mod_message
\* ------------------------------------------------------------------------
\* typing.Literal of the parameter `message`
MessageKeys == {"flagged", "criticize_language", "support", "forum"}

\* self.canned_messages: the table with a text for every key, and a table
\* that lacks one
CannedFull == [k \in MessageKeys |-> <<"text", k>>]

CannedPartial == [k \in MessageKeys \ {"forum"} |-> <<"text", k>>]

CannedTables == {CannedFull, CannedPartial}

Ephemeral(text, delete_after) ==
    [kind |-> "ephemeral", text |-> text, delete_after |-> delete_after]

Public(text) == [kind |-> "public", text |-> text, delete_after |-> "none"]

\* An invocation: messageable/member/guild are the three isinstance tests,
\* moderator: a role named "moderators" is among member.roles, can_send:
\* permissions.send_messages, mention: the optional member, out: the
\* messages sent so far, in their order.
ModStart(table, messageable, member, guild, moderator, message, mention, can_send) ==
    [pc |-> "start", canned_messages |-> table, messageable |-> messageable,
     member |-> member, guild |-> guild, moderator |-> moderator,
     message |-> message, mention |-> mention, can_send |-> can_send,
     out |-> <<>>]

\* mod_message that tests the role before the context
ModChecksRoleFirst(inv) ==
    IF ~inv.moderator
    THEN [inv EXCEPT !.pc = "reject",
              !.out = <<Ephemeral("That command is only for moderators; sorry!",
                                  "none")>>]
    ELSE IF ~inv.messageable THEN [inv EXCEPT !.pc = "done"]
    ELSE IF ~inv.member THEN [inv EXCEPT !.pc = "done"]
    ELSE IF ~inv.guild THEN [inv EXCEPT !.pc = "done"]
    ELSE IF inv.message \notin DOMAIN inv.canned_messages
    THEN [inv EXCEPT !.pc = "reject",
              !.out = <<Ephemeral("That canned message was not found! This is a bug.",
                                  "none")>>]
    ELSE IF ~inv.can_send
    THEN [inv EXCEPT !.pc = "reject",
              !.out = <<Ephemeral("I do not have permissions to send messages in this channel.",
                                  30)>>]
    ELSE [inv EXCEPT !.pc = "ack",
              !.out = <<Ephemeral("Sending canned message.", 5)>>]

\* mod_message without the test of the role
ModChecksNoRole(inv) ==
    IF ~inv.messageable THEN [inv EXCEPT !.pc = "done"]
    ELSE IF ~inv.member THEN [inv EXCEPT !.pc = "done"]
    ELSE IF ~inv.guild THEN [inv EXCEPT !.pc = "done"]
    ELSE IF inv.message \notin DOMAIN inv.canned_messages
    THEN [inv EXCEPT !.pc = "reject",
              !.out = <<Ephemeral("That canned message was not found! This is a bug.",
                                  "none")>>]
    ELSE IF ~inv.can_send
    THEN [inv EXCEPT !.pc = "reject",
              !.out = <<Ephemeral("I do not have permissions to send messages in this channel.",
                                  30)>>]
    ELSE [inv EXCEPT !.pc = "ack",
              !.out = <<Ephemeral("Sending canned message.", 5)>>]

\* mod_message that tests the bot's permission before the message key
ModChecksPermFirst(inv) ==
    IF ~inv.messageable THEN [inv EXCEPT !.pc = "done"]
    ELSE IF ~inv.member THEN [inv EXCEPT !.pc = "done"]
    ELSE IF ~inv.guild THEN [inv EXCEPT !.pc = "done"]
    ELSE IF ~inv.moderator
    THEN [inv EXCEPT !.pc = "reject",
              !.out = <<Ephemeral("That command is only for moderators; sorry!",
                                  "none")>>]
    ELSE IF ~inv.can_send
    THEN [inv EXCEPT !.pc = "reject",
              !.out = <<Ephemeral("I do not have permissions to send messages in this channel.",
                                  30)>>]
    ELSE IF inv.message \notin DOMAIN inv.canned_messages
    THEN [inv EXCEPT !.pc = "reject",
              !.out = <<Ephemeral("That canned message was not found! This is a bug.",
                                  "none")>>]
    ELSE [inv EXCEPT !.pc = "ack",
              !.out = <<Ephemeral("Sending canned message.", 5)>>]

\* Lines 44-89: from the invocation to its first suspension or its return
ModChecks(inv) ==
    IF ~inv.messageable THEN [inv EXCEPT !.pc = "done"]
    ELSE IF ~inv.member THEN [inv EXCEPT !.pc = "done"]
    ELSE IF ~inv.guild THEN [inv EXCEPT !.pc = "done"]
    ELSE IF ~inv.moderator
    THEN [inv EXCEPT !.pc = "reject",
              !.out = <<Ephemeral("That command is only for moderators; sorry!",
                                  "none")>>]
    ELSE IF inv.message \notin DOMAIN inv.canned_messages
    THEN [inv EXCEPT !.pc = "reject",
              !.out = <<Ephemeral("That canned message was not found! This is a bug.",
                                  "none")>>]
    ELSE IF ~inv.can_send
    THEN [inv EXCEPT !.pc = "reject",
              !.out = <<Ephemeral("I do not have permissions to send messages in this channel.",
                                  30)>>]
    ELSE [inv EXCEPT !.pc = "ack",
              !.out = <<Ephemeral("Sending canned message.", 5)>>]

\* the content without the mention
ModContentNoMention(inv) == inv.canned_messages[inv.message]

\* Lines 90-93: the content, with the mention in front when one is given
ModContent(inv) ==
    IF inv.mention # "none"
    THEN <<inv.mention, " ">> \o inv.canned_messages[inv.message]
    ELSE inv.canned_messages[inv.message]

ModInvoke ==
    /\ mod.pc \in {"idle", "done"}
    /\ \E table \in CannedTables, messageable \in BOOLEAN, member \in BOOLEAN,
          guild \in BOOLEAN, moderator \in BOOLEAN, message \in MessageKeys,
          mention \in {"none", "@member"}, can_send \in BOOLEAN :
          mod' = ModChecks(ModStart(table, messageable, member, guild,
                                    moderator, message, mention, can_send))
    /\ UNCHANGED trackVars

\* A rejection was sent: the handler logs and returns
ModRejectReturned ==
    /\ mod.pc = "reject"
    /\ mod' = [mod EXCEPT !.pc = "done"]
    /\ UNCHANGED trackVars

\* Lines 90-93: the acknowledgment was sent; channel.send(content)
ModAckReturned ==
    /\ mod.pc = "ack"
    /\ mod' = [mod EXCEPT !.pc = "send",
                          !.out = Append(mod.out, Public(ModContent(mod)))]
    /\ UNCHANGED trackVars

\* channel.send returned: the handler ends
ModSendReturned ==
    /\ mod.pc = "send"
    /\ mod' = [mod EXCEPT !.pc = "done"]
    /\ UNCHANGED trackVars

\* ------------------------------------------------------------------------
\* Specifications
\* ------------------------------------------------------------------------
Init ==
    /\ InitTrack(MainConfig)
    /\ mod = ModIdle

\* The two cogs share no state: Spec runs the handlers of TrackReact,
\* SpecMod the command of ModMessage.
Next ==
    \/ \E h \in ReadyIds : OnReadyStart(h)
    \/ \E h \in ReadyIds : OnReadyBuild(h)
    \/ \E m \in MsgIds : OnMessage(m)
    \/ \E m \in MsgIds : MsgReact(m)
    \/ \E t \in ThreadEventIds : OnThreadCreate(t)
    \/ \E t \in ThreadEventIds : ThreadWake(t)
    \/ \E t \in ThreadEventIds : ThreadReact(t)

Spec == Init /\ [][Next]_vars

\* The handlers of on_ready alone, for a cog constructed with any of the
\* configurations
InitBuild ==
    /\ \E config \in Configs : InitTrack(config)
    /\ mod = ModIdle

NextBuild ==
    \/ \E h \in ReadyIds : OnReadyStart(h)
    \/ \E h \in ReadyIds : OnReadyBuild(h)

SpecBuild == InitBuild /\ [][NextBuild]_vars

\* The sleep of on_thread_create ends and every add_reaction returns: the
\* handlers of thread creation go on until they return.
FairSpec ==
    /\ Spec
    /\ \A t \in ThreadEventIds :
          WF_vars(ThreadWake(t)) /\ WF_vars(ThreadReact(t))

\* Several thread-creation events at a time.  The cog has completed one
\* on_ready for the full emoji list; the handlers of messages and of
\* thread creation run from there.
NumRaceEvents == 2

RaceEventIds == 1..NumRaceEvents

FullEmojiList == <<EmojiGo, EmojiC, EmojiOk>>

InitThreads ==
    /\ aliases = MainConfig.aliases
    /\ case_sensitive = MainConfig.case_sensitive
    /\ reacts = BuildReacts(FullEmojiList, MainConfig.aliases,
                            MainConfig.case_sensitive).map
    /\ messages = EmptyMap
    /\ ready = [h \in ReadyIds |->
                   [ReadyIdle EXCEPT !.pc = "done", !.emojis = FullEmojiList]]
    /\ msg = [m \in MsgIds |-> MsgIdle]
    /\ thr = [t \in RaceEventIds |-> ThrIdle]
    /\ mod = ModIdle

NextThreads ==
    \/ \E m \in MsgIds : OnMessage(m)
    \/ \E m \in MsgIds : MsgReact(m)
    \/ \E t \in RaceEventIds : OnThreadCreate(t)
    \/ \E t \in RaceEventIds : ThreadWake(t)
    \/ \E t \in RaceEventIds : ThreadReact(t)

SpecThreads == InitThreads /\ [][NextThreads]_vars

\* The handlers of TrackReact when an add_reaction can fail
NextFail ==
    \/ Next
    \/ \E m \in MsgIds : MsgReactFails(m)
    \/ \E t \in ThreadEventIds : ThreadReactFails(t)

SpecFail == Init /\ [][NextFail]_vars

\* The texts the cog can be given.  The guild has a track cpp and a track
\* a_b next to go and c; the alias table names "c++" for cpp.
EmojiCpp   == [id |-> "e_cpp", name |-> <<"t","r","a","c","k","_","c","p","p">>]

EmojiAB    == [id |-> "e_a_b", name |-> <<"t","r","a","c","k","_","a","_","b">>]

TextEmojiList == <<EmojiGo, EmojiC, EmojiCpp, EmojiAB, EmojiOk>>

TextAliases ==
    << Alias(<<"c","+","+">>, <<"c","p","p">>),
       Alias(<<"c","#">>, <<"c">>) >>

TextConfigs ==
    [aliases : {TextAliases},
     case_sensitive : {{}, {<<"g","o">>, <<"a","_","b">>},
                       {<<"c","+","+">>, <<"c","#">>}}]

\* Lines a message is made of: a fence with a language tag, a bare fence,
\* a fence line of two words, a line of text, a line with a fence not at
\* its start.
ParseLinesAlphabet ==
    { <<Backtick,Backtick,Backtick,"g","O">>,
      <<Backtick,Backtick,Backtick>>,
      <<Backtick,Backtick,Backtick,"c"," ","C">>,
      <<"C">>,
      <<"x"," ",Backtick,Backtick,Backtick>> }

MaxLines == 3

ParseInputs ==
    {JoinLines(ls) : ls \in UNION {[1..n -> ParseLinesAlphabet] : n \in 0..MaxLines}}

MatchTexts ==
    { <<"I"," ","l","o","v","e"," ","c","+","+","!">>,
      <<"c","+","+","l","a","n","g">>,
      <<"A"," ","B">>,
      <<"A"," ","b">>,
      <<"x","g","o">> }

TextContents == ParseInputs \cup MatchTexts

\* The cog has sent its fetch_emojis request; one message arrives, before
\* or after the build.
TextMsgIds == {1}

InitText ==
    /\ \E config \in TextConfigs :
          /\ aliases = config.aliases
          /\ case_sensitive = config.case_sensitive
    /\ reacts = EmptyMap
    /\ messages = EmptyMap
    /\ ready = [h \in ReadyIds |->
                   [ReadyIdle EXCEPT !.pc = "fetch", !.emojis = TextEmojiList]]
    /\ msg = [m \in MsgIds |-> MsgIdle]
    /\ thr = [t \in ThreadEventIds |-> ThrIdle]
    /\ mod = ModIdle

NextText ==
    \/ \E h \in ReadyIds : OnReadyBuild(h)
    \/ \E m \in TextMsgIds : OnMessageWith(m, TextContents)
    \/ \E m \in TextMsgIds : MsgReact(m)

SpecText == InitText /\ [][NextText]_vars

NextMod ==
    \/ ModInvoke
    \/ ModRejectReturned
    \/ ModAckReturned
    \/ ModSendReturned

SpecMod == Init /\ [][NextMod]_vars

\* ------------------------------------------------------------------------
\* What a complete build holds, stated from the emoji list and the alias
\* table (not by running the loops of on_ready)
\* ------------------------------------------------------------------------
TrackEmojiAt(emojis) == {i \in DOMAIN emojis : StartsWith(emojis[i].name, TrackPrefix)}

\* the fetched track set: the prefix-stripped names of the track_ emoji
TrackNames(emojis) ==
    {RemovePrefix(emojis[i].name, TrackPrefix) : i \in TrackEmojiAt(emojis)}

Max(S) == CHOOSE x \in S : \A y \in S : y <= x

\* the emoji of a fetched track name (the last one of that name)
EmojiOfTrack(emojis, name) ==
    emojis[Max({i \in TrackEmojiAt(emojis) :
                    RemovePrefix(emojis[i].name, TrackPrefix) = name})]

\* The alias at position i resolves: its source is a fetched track, or an
\* alias listed earlier that resolves.
RECURSIVE AliasResolves(_, _, _)
AliasResolves(emojis, items, i) ==
    \/ items[i].src \in TrackNames(emojis)
    \/ \E j \in 1..(i - 1) :
          items[j].alias = items[i].src /\ AliasResolves(emojis, items, j)

\* The emoji a name stands for after the first k aliases of the table
RECURSIVE EmojiOfName(_, _, _, _)
EmojiOfName(emojis, items, name, k) ==
    LET setters == {j \in 1..k : items[j].alias = name
                                 /\ AliasResolves(emojis, items, j)}
    IN  IF setters = {} THEN EmojiOfTrack(emojis, name)
        ELSE EmojiOfName(emojis, items, items[Max(setters)].src, Max(setters) - 1)

ExpectedNames(emojis, items) ==
    TrackNames(emojis)
    \cup {items[i].alias : i \in {j \in DOMAIN items : AliasResolves(emojis, items, j)}}

\* map is the complete build for the fetched list: a pattern for every
\* fetched track and every resolvable alias, each with the emoji its name
\* stands for, and nothing else.  A list that gives an empty pattern source
\* has no complete build.
IsCompleteBuild(map, emojis) ==
    LET names == ExpectedNames(emojis, aliases) IN
    /\ \A n \in names : TrackSource(n, case_sensitive) # <<>>
    /\ LET pattern == [n \in names |-> Compile(n, case_sensitive)] IN
       /\ DOMAIN map = {pattern[n] : n \in names}
       /\ \A p \in DOMAIN map :
             \E n \in names :
                 /\ pattern[n] = p
                 /\ map[p] = EmojiOfName(emojis, aliases, n, Len(aliases))

\* the set `reactions` of a call: what it has applied and what it still has
\* to apply
CallSet(call) == call.todo \cup {call.applied[i] : i \in DOMAIN call.applied}

\* ------------------------------------------------------------------------
\* Claims
\* ------------------------------------------------------------------------
\* C1 as stated: an on_ready that does not find the guild leaves the pattern
\* map empty, also after an earlier successful build.
C1_FailedReadyEmptiesMap ==
    [][\A h \in ReadyIds :
          (ready[h].pc # "failed" /\ ready'[h].pc = "failed")
              => reacts' = EmptyMap]_vars

\* C1 amended: an on_ready that does not find the guild leaves the pattern
\* map as it was (empty only when nothing was built before).
C1_FailedReadyKeepsMap ==
    [][\A h \in ReadyIds :
          (ready[h].pc # "failed" /\ ready'[h].pc = "failed")
              => reacts' = reacts]_vars

\* a failed on_ready after a successful build
C1_FailedAfterBuild ==
    \E h \in ReadyIds : ready[h].pc = "failed" /\ reacts # EmptyMap

\* C2: self.reacts is always empty or the complete build of one fetched
\* list and changes only by the final assignment of an on_ready; every
\* add_reacts call takes its set of reactions from the map of the instant
\* it starts, and the set stays the same while the call applies it.
C2_MapIsComplete ==
    reacts = EmptyMap \/ \E emojis \in EmojiLists : IsCompleteBuild(reacts, emojis)

C2_Step ==
    /\ reacts' # reacts =>
          \E h \in ReadyIds :
              /\ ready[h].pc = "fetch" /\ ready'[h].pc = "done"
              /\ IsCompleteBuild(reacts', ready[h].emojis)
    /\ \A m \in MsgIds :
          /\ (msg[m].pc = "idle" /\ msg'[m].pc # "idle"
                /\ msg'[m].guild /\ msg'[m].perm)
              => CallSet(msg'[m]) =
                    MatchedReactions(reacts, parse_codeblocks(msg'[m].content))
          /\ msg[m].pc = "react" => CallSet(msg'[m]) = CallSet(msg[m])
    /\ \A t \in ThreadEventIds :
          /\ (thr[t].pc = "sleep" /\ thr'[t].pc \in {"react", "done"}
                /\ msg[thr'[t].message].guild /\ msg[thr'[t].message].perm)
              => CallSet(thr'[t]) =
                    MatchedReactions(reacts,
                        parse_codeblocks(ThreadName(msg[thr'[t].message].chan)))
          /\ thr[t].pc = "react" => CallSet(thr'[t]) = CallSet(thr[t])

C2_ConsistentVersion == []C2_MapIsComplete /\ [][C2_Step]_vars

\* a rebuild completed while a call applies its reactions: the set of the
\* call is no longer what the current map would give
C2_RebuildDuringCall ==
    \E m \in MsgIds :
        /\ msg[m].pc = "react" /\ msg[m].applied # <<>>
        /\ CallSet(msg[m]) #
              MatchedReactions(reacts, parse_codeblocks(msg[m].content))

\* C3: an invocation in a valid guild-channel context by a member without
\* the role "moderators" has sent exactly the one ephemeral rejection and
\* no public message, whatever the key, the mention and the permission.
C3_NonModeratorRejected ==
    (mod.pc # "idle" /\ mod.messageable /\ mod.member /\ mod.guild
        /\ ~mod.moderator)
    => /\ mod.pc \in {"reject", "done"}
       /\ Len(mod.out) = 1
       /\ mod.out[1].kind = "ephemeral"
       /\ mod.out[1].text = "That command is only for moderators; sorry!"

\* a finished invocation of a non-moderator with a known key, a mention and
\* the permission to send
C3_NonModeratorDone ==
    /\ mod.pc = "done" /\ mod.messageable /\ mod.member /\ mod.guild
    /\ ~mod.moderator /\ mod.can_send /\ mod.mention # "none"
    /\ mod.message \in DOMAIN mod.canned_messages

\* C4: a thread handler that wakes and finds no pending entry for its
\* thread id ends there: no reaction, no exception, the pending map and the
\* pattern map unchanged.
C4_NoEntryNoOp ==
    [][\A t \in ThreadEventIds :
          (thr[t].pc = "sleep" /\ thr'[t].pc # "sleep"
              /\ thr[t].id \notin DOMAIN messages)
          => /\ thr'[t].pc = "nomsg"
             /\ thr'[t].todo = {} /\ thr'[t].applied = <<>>
             /\ messages' = messages /\ reacts' = reacts
             /\ msg' = msg]_vars

\* the handler found nothing and the message of its thread was recorded
\* only afterwards
C4_MessageAfterWake ==
    \E t \in ThreadEventIds :
        thr[t].pc = "nomsg" /\ thr[t].id \in DOMAIN messages

\* C5 as stated: in the map a build assigns, no alias whose source is not a
\* fetched track name has a pattern (also when the source is an alias listed
\* earlier in the table).
C5_AbsentSourceNoPattern ==
    [][\A h \in ReadyIds :
          (ready[h].pc = "fetch" /\ ready'[h].pc = "done")
          => \A i \in DOMAIN aliases :
                aliases[i].src \notin TrackNames(ready[h].emojis)
                => Compile(aliases[i].alias, case_sensitive)
                       \notin DOMAIN reacts']_vars

\* C6: over all outcomes an invocation has sent at most one ephemeral reply
\* and at most one public message, and a public message only after the
\* acknowledgment; an invocation that passes every check has sent the
\* acknowledgment and, once it went on, the canned text with the mention in
\* front when one is given.
ModPasses ==
    /\ mod.pc # "idle" /\ mod.messageable /\ mod.member /\ mod.guild
    /\ mod.moderator /\ mod.can_send
    /\ mod.message \in DOMAIN mod.canned_messages

OfKind(out, kind) == {i \in DOMAIN out : out[i].kind = kind}

C6_AckThenPost ==
    /\ mod.pc # "idle" =>
          /\ Cardinality(OfKind(mod.out, "ephemeral")) <= 1
          /\ Cardinality(OfKind(mod.out, "public")) <= 1
          /\ \A i \in OfKind(mod.out, "public") :
                /\ i = 2
                /\ mod.out[1] = Ephemeral("Sending canned message.", 5)
    /\ ModPasses =>
          /\ mod.pc \in {"ack", "send", "done"}
          /\ mod.out[1] = Ephemeral("Sending canned message.", 5)
          /\ mod.pc = "ack" => Len(mod.out) = 1
          /\ mod.pc \in {"send", "done"} =>
                /\ Len(mod.out) = 2
                /\ mod.out[2].kind = "public"
                /\ mod.out[2].text =
                      IF mod.mention = "none"
                      THEN mod.canned_messages[mod.message]
                      ELSE <<mod.mention, " ">> \o mod.canned_messages[mod.message]

\* a finished invocation that passed every check and had a mention
C6_PostedWithMention ==
    ModPasses /\ mod.pc = "done" /\ mod.mention # "none" /\ Len(mod.out) = 2

\* C7: the map an on_ready assigns is the complete build for the list that
\* run fetched: nothing of the map it replaces is kept.
C7_RebuildReplaces ==
    [][\A h \in ReadyIds :
          (ready[h].pc = "fetch" /\ ready'[h].pc = "done")
              => IsCompleteBuild(reacts', ready[h].emojis)]_vars

\* a rebuild has dropped a pattern of the map it replaced
C7_StaleEntryDropped ==
    \E h \in ReadyIds :
        /\ ready[h].pc = "done" /\ reacts # EmptyMap
        /\ IsCompleteBuild(reacts, ready[h].emojis)
        /\ \E p \in DOMAIN ready[h].replaced : p \notin DOMAIN reacts

\* C8: an invocation outside a postable channel, by a non-member or outside
\* a guild has returned without sending anything, and the next invocation
\* can be handled.
C8_BadContextSilent ==
    (mod.pc # "idle" /\ ~(mod.messageable /\ mod.member /\ mod.guild))
    => /\ mod.pc = "done"
       /\ mod.out = <<>>
       /\ ENABLED ModInvoke

\* a finished invocation by a user who is no guild member and has no
\* moderator role
C8_NonMemberDone ==
    /\ mod.pc = "done" /\ mod.messageable /\ ~mod.member /\ mod.guild
    /\ ~mod.moderator

\* C9 as stated: the assertion of the build never fails, and no entry of
\* the map has an empty pattern source.
C9_AssertionHolds ==
    /\ \A h \in ReadyIds : ready[h].pc # "raised"
    /\ \A p \in DOMAIN reacts : p.track # <<>>

\* C10: a thread handler that wakes and finds a pending entry removes it
\* and takes its message; when the message has a guild and the permission,
\* the reactions of the call are the emoji whose pattern matches the name
\* of the thread, and the handler goes on until it has applied them all.
\* An entry appears in the pending map only by a message event.
C10_Step ==
    /\ \A t \in ThreadEventIds :
          /\ (thr[t].pc = "sleep" /\ thr'[t].pc # "sleep"
                /\ thr[t].id \in DOMAIN messages)
             => /\ thr[t].id \notin DOMAIN messages'
                /\ thr'[t].message = messages[thr[t].id]
                /\ thr'[t].applied = <<>>
                /\ (msg[messages[thr[t].id]].guild /\ msg[messages[thr[t].id]].perm)
                   => thr'[t].todo =
                         MatchedReactions(reacts,
                             parse_codeblocks(ThreadName(thr[t].id)))
          /\ thr[t].pc = "react"
             => /\ thr'[t].message = thr[t].message
                /\ CallSet(thr'[t]) = CallSet(thr[t])
                /\ thr'[t] # thr[t]
                   => Len(thr'[t].applied) = Len(thr[t].applied) + 1
    /\ \A id \in ThreadIds :
          (id \notin DOMAIN messages /\ id \in DOMAIN messages')
          => \E m \in MsgIds :
                msg[m].pc = "idle" /\ msg'[m].pc # "idle" /\ msg'[m].chan = id

C10_Finished ==
    \A t \in ThreadEventIds :
        thr[t].pc = "done" =>
            /\ thr[t].todo = {}
            /\ Cardinality(CallSet(thr[t])) = Len(thr[t].applied)

C11_Step ==
    \A t \in DOMAIN thr :
        (thr[t].pc = "sleep" /\ thr'[t].pc # "sleep")
        => IF thr[t].id \in DOMAIN messages
           THEN /\ thr[t].id \notin DOMAIN messages'
                /\ thr'[t].message = messages[thr[t].id]
                /\ thr'[t].pc \in {"react", "done"}
           ELSE /\ thr'[t].pc = "nomsg"
                /\ messages' = messages

C11_OnePass ==
    /\ \A t \in DOMAIN thr :
          thr[t].pc \in {"idle", "sleep", "nomsg", "react", "done"}
    /\ \A m \in MsgIds :
          Cardinality({t \in DOMAIN thr : thr[t].pc \in {"react", "done"}
                                          /\ thr[t].message = m}) <= 1

C11_ConsumedOnce == []C11_OnePass /\ [][C11_Step]_vars

\* two handlers of one thread id slept at the same time; one has taken the
\* entry and the other, still asleep, will find none
C11_SecondSleeper ==
    \E t1 \in DOMAIN thr, t2 \in DOMAIN thr :
        /\ t1 # t2 /\ thr[t1].id = thr[t2].id
        /\ thr[t1].pc = "react" /\ thr[t2].pc = "sleep"
        /\ thr[t1].id \notin DOMAIN messages

\* C12 as stated: the applications of one add_reacts call are independent:
\* when one add_reaction has failed, every other emoji of the matched set
\* is applied all the same, so a call that ended by a failure leaves at most
\* the failed emoji unapplied.
C12_OthersStillApplied ==
    /\ \A m \in MsgIds :
          msg[m].pc = "raised" => Cardinality(msg[m].todo) <= 1
    /\ \A t \in DOMAIN thr :
          thr[t].pc = "raised" => Cardinality(thr[t].todo) <= 1

\* C13: the step in which on_message takes a message of a public thread
\* sets the pending entry of the thread's channel id to that message,
\* whether or not an entry was pending and whether or not the reaction path
\* passes its checks, and leaves the other entries alone; for a message of
\* another channel the pending map is unchanged.  No reaction is applied
\* before that, and the reactions of the call are those of the message's
\* own content.
C13_MessageRecorded ==
    [][\A m \in MsgIds :
          (msg[m].pc = "idle" /\ msg'[m].pc # "idle")
          => /\ IF IsPublicThread(msg'[m].chan)
                THEN /\ DOMAIN messages' = DOMAIN messages \cup {msg'[m].chan}
                     /\ messages'[msg'[m].chan] = m
                     /\ \A id \in DOMAIN messages :
                           id # msg'[m].chan => messages'[id] = messages[id]
                ELSE messages' = messages
             /\ msg'[m].applied = <<>>
             /\ msg'[m].todo =
                   IF msg'[m].guild /\ msg'[m].perm
                   THEN MatchedReactions(reacts,
                            parse_codeblocks(msg'[m].content))
                   ELSE {}]_vars

\* the second message of a thread, sent where the bot may not add
\* reactions, has replaced the entry of the first, which no handler had
\* consumed
C13_RecordedWithoutReaction ==
    /\ msg[2].pc = "done" /\ msg[2].guild /\ ~msg[2].perm
    /\ IsPublicThread(msg[2].chan) /\ msg[1].chan = msg[2].chan
    /\ msg[2].chan \in DOMAIN messages /\ messages[msg[2].chan] = 2
    /\ \A t \in DOMAIN thr : thr[t].pc = "idle"

\* C14: in a valid context the rejections come in the order role, message
\* key, permission, and the first failing test alone decides: a moderator
\* with an unknown key has got only the "bug" notice, also without the
\* permission to send; a moderator with a known key and without the
\* permission has got the one notice about the permission; a rejected
\* invocation has sent one ephemeral notice and nothing public.
ModContextOk ==
    mod.pc # "idle" /\ mod.messageable /\ mod.member /\ mod.guild

C14_RejectionOrder ==
    /\ (ModContextOk /\ ~mod.moderator)
       => mod.out = <<Ephemeral("That command is only for moderators; sorry!",
                                "none")>>
    /\ (ModContextOk /\ mod.moderator
          /\ mod.message \notin DOMAIN mod.canned_messages)
       => mod.out = <<Ephemeral("That canned message was not found! This is a bug.",
                                "none")>>
    /\ (ModContextOk /\ mod.moderator
          /\ mod.message \in DOMAIN mod.canned_messages /\ ~mod.can_send)
       => mod.out = <<Ephemeral("I do not have permissions to send messages in this channel.",
                                30)>>
    /\ (ModContextOk /\ ~ModPasses)
       => /\ mod.pc \in {"reject", "done"}
          /\ OfKind(mod.out, "public") = {}

\* a finished invocation of a moderator with an unknown key in a channel
\* where the bot may not send
C14_UnknownKeyNoPermission ==
    /\ ModContextOk /\ mod.pc = "done" /\ mod.moderator
    /\ mod.message \notin DOMAIN mod.canned_messages /\ ~mod.can_send

\* C15: a call of add_reacts that passes its checks takes as its set the
\* emoji that have at least one pattern matching the stripped text, and
\* applies each of them once: every add_reaction takes an emoji of the set
\* that was not applied yet, and the call ends when none is left, also when
\* a track and its aliases match for the same emoji.
EmojiWithMatch(map, text) ==
    {e \in {map[p] : p \in DOMAIN map} :
        \E p \in DOMAIN map : map[p] = e /\ Search(p, text)}

Applied(call) == {call.applied[i] : i \in DOMAIN call.applied}

AppliesOne(before, after) ==
    \E e \in before.todo :
        /\ e \notin Applied(before)
        /\ after.applied = Append(before.applied, e)
        /\ after.todo = before.todo \ {e}
        /\ after.pc = IF after.todo = {} THEN "done" ELSE "react"

C15_Step ==
    /\ \A m \in MsgIds :
          /\ (msg[m].pc = "idle" /\ msg'[m].pc # "idle"
                /\ msg'[m].guild /\ msg'[m].perm)
             => /\ msg'[m].todo =
                      EmojiWithMatch(reacts, parse_codeblocks(msg'[m].content))
                /\ msg'[m].applied = <<>>
          /\ (msg[m].pc = "react" /\ msg'[m] # msg[m])
             => AppliesOne(msg[m], msg'[m])
    /\ \A t \in DOMAIN thr :
          /\ (thr[t].pc = "sleep" /\ thr'[t].pc = "react")
             => /\ thr'[t].todo =
                      EmojiWithMatch(reacts,
                          parse_codeblocks(ThreadName(thr[t].id)))
                /\ thr'[t].applied = <<>>
          /\ (thr[t].pc = "react" /\ thr'[t] # thr[t])
             => AppliesOne(thr[t], thr'[t])

C15_Once ==
    \A call \in {msg[m] : m \in MsgIds} \cup {thr[t] : t \in DOMAIN thr} :
        /\ Cardinality(Applied(call)) = Len(call.applied)
        /\ Applied(call) \cap call.todo = {}
        /\ call.pc = "done" => call.todo = {}
        /\ call.pc = "react" => call.todo # {}

RECURSIVE TitleCasedFrom(_, _)
TitleCasedFrom(s, afterLetter) ==
    IF s = <<>> THEN <<>>
    ELSE <<IF afterLetter THEN ToLower(Head(s)) ELSE ToUpper(Head(s))>>
         \o TitleCasedFrom(Tail(s), IsCased(Head(s)))

TitleCased(s) == TitleCasedFrom(s, FALSE)

IsFenceLine(line) == Len(line) >= 3 /\ \A i \in 1..3 : line[i] = Backtick

InBlockAfter(lines, i) ==
    Cardinality({j \in 1..i : IsFenceLine(lines[j])}) % 2 = 1

LineOut(lines, i) ==
    LET opening == IsFenceLine(lines[i]) /\ InBlockAfter(lines, i)
        tokens  == SplitWords(lines[i])
    IN  (IF opening /\ Len(tokens) = 1 THEN <<TitleCased(tokens[1])>> ELSE <<>>)
        \o (IF ~InBlockAfter(lines, i) THEN <<lines[i]>> ELSE <<>>)

RECURSIVE Emitted(_, _)
Emitted(lines, i) ==
    IF i > Len(lines) THEN <<>>
    ELSE LineOut(lines, i) \o Emitted(lines, i + 1)

SurvivingText(content) == JoinLines(Emitted(SplitLines(content), 1))

C16_Stripped ==
    \A m \in MsgIds :
        msg[m].pc # "idle"
        => parse_codeblocks(msg[m].content) = SurvivingText(msg[m].content)

C16_Step ==
    \A m \in MsgIds :
        (msg[m].pc = "idle" /\ msg'[m].pc # "idle"
            /\ msg'[m].guild /\ msg'[m].perm)
        => msg'[m].todo =
              EmojiWithMatch(reacts, SurvivingText(msg'[m].content))

C16_FencedRegionsDropped == []C16_Stripped /\ [][C16_Step]_vars

\* a message with a fence tagged gO around the line C has got the reaction
\* of go and not that of c
C16_TagMatchedBodyNot ==
    /\ msg[1].pc = "done"
    /\ msg[1].content =
          <<Backtick,Backtick,Backtick,"g","O","\n","C","\n",
            Backtick,Backtick,Backtick>>
    /\ msg[1].applied = <<EmojiGo>>
    /\ \E p \in DOMAIN reacts :
          reacts[p] = EmojiC /\ Search(p, <<"C">>)

\* C17 as stated: with the patterns built (the alias "c++" stands for the
\* track cpp), a message "I love c++!" gets the reaction of cpp, since the
\* track token is followed by a non-word character, and a message
\* "c++lang" does not; a message "xgo" does not get the reaction of the
\* track go, whose name ends in an alphanumeric character.
C17_SymbolSuffixBoundary ==
    [][\A m \in MsgIds :
          (msg[m].pc = "idle" /\ msg'[m].pc # "idle"
              /\ msg'[m].guild /\ msg'[m].perm
              /\ \E p \in DOMAIN reacts : p.track = <<"c","+","+">>)
          => /\ msg'[m].content = <<"I"," ","l","o","v","e"," ","c","+","+","!">>
                => EmojiCpp \in msg'[m].todo
             /\ msg'[m].content = <<"c","+","+","l","a","n","g">>
                => EmojiCpp \notin msg'[m].todo
             /\ msg'[m].content = <<"x","g","o">>
                => EmojiGo \notin msg'[m].todo]_vars

\* The texts that differ from a text by the case of letters only
RECURSIVE CaseVariants(_)
CaseVariants(text) ==
    IF text = <<>> THEN {<<>>}
    ELSE {<<c>> \o rest : c \in {ToLower(Head(text)), ToUpper(Head(text))},
                          rest \in CaseVariants(Tail(text))}

\* a name as it is written in a text: a space for each underscore
Spaced(name) == [i \in 1..Len(name) |-> IF name[i] = "_" THEN " " ELSE name[i]]

\* first letter upper-cased, all the others lower-cased
Capitalize(s) ==
    [i \in 1..Len(s) |-> IF i = 1 THEN ToUpper(s[i]) ELSE ToLower(s[i])]

\* a name of letters, digits and underscores only
IsPlainName(name) == \A i \in DOMAIN name : IsWordChar(name[i])

\* In a completed build every track name (base track or alias) has a
\* pattern for its emoji.  For a name of length 1 or of the case-sensitive
\* set the pattern has the flags 0 and is made from Form(name): of the
\* texts that spell the name in any case it matches none but Form(name),
\* and it matches that one when the name is plain.  For any other name the
\* pattern has the flag IGNORECASE and is made from the name as it is: it
\* matches the texts that spell the name alike in every case, and it
\* matches them when the name is plain.
CaseRule(Form(_)) ==
    \A h \in ReadyIds :
        (ready[h].pc = "done" /\ reacts # EmptyMap)
        => \A n \in ExpectedNames(ready[h].emojis, aliases) :
              \E p \in DOMAIN reacts :
                  /\ reacts[p] = EmojiOfName(ready[h].emojis, aliases, n,
                                             Len(aliases))
                  /\ IF Len(n) = 1 \/ n \in case_sensitive
                     THEN /\ p.flags = NOFLAG
                          /\ p.track = ReplaceUnderscore(Form(n))
                          /\ \A x \in CaseVariants(Spaced(n)) :
                                Search(p, x) => x = Spaced(Form(n))
                          /\ IsPlainName(n) => Search(p, Spaced(Form(n)))
                     ELSE /\ p.flags = IGNORECASE
                          /\ p.track = ReplaceUnderscore(n)
                          /\ \A x \in CaseVariants(Spaced(n)) :
                                Search(p, x) <=> Search(p, Spaced(n))
                          /\ IsPlainName(n) => Search(p, Spaced(n))

\* C18 as stated: a case-sensitive name is matched with its first letter
\* upper-cased and all the remaining letters lower-cased, also a multi-word
\* name with underscores (a_b as "A b").
C18_CapitalizedForm == CaseRule(Capitalize)

\* C18 amended: a case-sensitive name is matched title-cased: every letter
\* that starts the name or follows a character that is no letter is
\* upper-cased, the other letters are lower-cased (a_b as "A B").
C18_TitleCasedForm == CaseRule(TitleCased)

\* the build has given the listed name a_b the case-sensitive pattern
\* A.?B, and a message "A B" has got the reaction of a_b
C18_MultiWordListed ==
    /\ <<"a","_","b">> \in case_sensitive
    /\ \E p \in DOMAIN reacts :
          p.track = <<"A",".","?","B">> /\ p.flags = NOFLAG
    /\ msg[1].pc = "done" /\ msg[1].content = <<"A"," ","B">>
    /\ msg[1].applied = <<EmojiAB>>

\* C19: a call of add_reacts for a message without a guild, or in a
\* channel where the bot lacks the add_reactions permission, applies
\* nothing and returns at once without raising, whatever the text and the
\* pattern map; it leaves the pattern map alone, and the pending map
\* changes in that step only by what the calling handler itself does (the
\* entry on_message records, the entry on_thread_create pops).
C19_Step ==
    /\ \A m \in MsgIds :
          (msg[m].pc = "idle" /\ msg'[m].pc # "idle"
              /\ ~(msg'[m].guild /\ msg'[m].perm))
          => /\ msg'[m].pc = "done"
             /\ msg'[m].todo = {} /\ msg'[m].applied = <<>>
             /\ reacts' = reacts
             /\ messages' = IF IsPublicThread(msg'[m].chan)
                             THEN MapSet(messages, msg'[m].chan, m)
                             ELSE messages
    /\ \A t \in DOMAIN thr :
          (thr[t].pc = "sleep" /\ thr'[t].pc # "sleep"
              /\ thr[t].id \in DOMAIN messages
              /\ ~(msg[messages[thr[t].id]].guild
                     /\ msg[messages[thr[t].id]].perm))
          => /\ thr'[t].pc = "done"
             /\ thr'[t].todo = {} /\ thr'[t].applied = <<>>
             /\ reacts' = reacts
             /\ messages' = MapRemove(messages, thr[t].id)

C19_NothingApplied ==
    /\ \A m \in MsgIds :
          (msg[m].pc # "idle" /\ ~(msg[m].guild /\ msg[m].perm))
          => msg[m].pc = "done" /\ msg[m].applied = <<>>
    /\ \A t \in DOMAIN thr :
          (thr[t].pc \in {"react", "done", "raised"}
              /\ ~(msg[thr[t].message].guild /\ msg[thr[t].message].perm))
          => thr[t].pc = "done" /\ thr[t].applied = <<>>

C19_NoOpWithoutGuildOrPermission ==
    []C19_NothingApplied /\ [][C19_Step]_vars

\* a message in a channel without the permission whose text matches
\* patterns of the map, and a thread handler that took a message without a
\* guild under a title that matches: both ended with nothing applied
C19_MatchingTextNoReaction ==
    /\ \E m \in MsgIds :
          /\ msg[m].pc = "done" /\ msg[m].guild /\ ~msg[m].perm
          /\ EmojiWithMatch(reacts, parse_codeblocks(msg[m].content)) # {}
    /\ \E t \in DOMAIN thr :
          /\ thr[t].pc = "done" /\ ~msg[thr[t].message].guild
          /\ EmojiWithMatch(reacts,
                 parse_codeblocks(ThreadName(thr[t].id))) # {}

\* C20: the entry pending for a thread id is the message of that thread
\* handled last (messages are numbered in the order of their events), so a
\* handler that wakes takes the last one recorded before; an entry changes
\* only by a message event of its thread and goes away only when a
\* thread-creation handler of its id wakes, so an entry recorded after the
\* handlers of its thread have run stays.
C20_LatestPending ==
    \A id \in DOMAIN messages :
        messages[id] =
            Max({m \in MsgIds : msg[m].pc # "idle" /\ msg[m].chan = id})

C20_Step ==
    /\ \A t \in DOMAIN thr :
          (thr[t].pc = "sleep" /\ thr'[t].pc \in {"react", "done"})
          => /\ thr[t].id \in DOMAIN messages
             /\ thr'[t].message =
                   Max({m \in MsgIds : msg[m].pc # "idle"
                                        /\ msg[m].chan = thr[t].id})
    /\ \A id \in DOMAIN messages :
          /\ id \notin DOMAIN messages'
             => \E t \in DOMAIN thr :
                   /\ thr[t].pc = "sleep" /\ thr[t].id = id
                   /\ thr'[t].pc # "sleep"
          /\ (id \in DOMAIN messages' /\ messages'[id] # messages[id])
             => \E m \in MsgIds :
                   /\ msg[m].pc = "idle" /\ msg'[m].pc # "idle"
                   /\ msg'[m].chan = id /\ messages'[id] = m

C20_LastMessagePending == []C20_LatestPending /\ [][C20_Step]_vars

\* the handler has reacted to the second message of its thread, which had
\* replaced the entry of the first
C20_SecondMessageTaken ==
    \E t \in DOMAIN thr :
        /\ thr[t].pc = "done" /\ thr[t].applied # <<>>
        /\ thr[t].message = 2 /\ msg[1].chan = thr[t].id

====
